---- MODULE Spec2Model ----
(***************************************************************************)
(* Model of glow's HostManager (lib/Runtime/HostManager/HostManager.cpp):  *)
(* the network registry, admission control, per-network reference counts  *)
(* and the add / remove / run / clear operations, executed by concurrent   *)
(* caller threads and by the Executor's completion callbacks.              *)
(*                                                                         *)
(* Every shared-memory access of the source is one step.  A thread's       *)
(* position in an operation is th[t].pc; the completion wrapper of a run   *)
(* forwarded to the Executor advances through runs[k].st.                  *)
(***************************************************************************)
EXTENDS Integers, Sequences, FiniteSets, TLC

\* ------------------------------------------------------------------ bounds
MaxRuns == 2
MaxAdds == 2
MaxClears == 1
MaxActiveCfg == 1

\* ------------------------------------------------------------ environment
\* The client threads (the completion wrappers run on Executor threads).
Thread == {1, 2}
Names == {"f", "g"}
Device == {0, 1}
Null == "null"
NoThread == 0

\* The function sets of the modules a caller may hand to addNetwork.
ModuleFns == {{"f"}, {"g"}, {"f", "g"}}

\* The partitioner's result for a function: its DAG nodes, each with the
\* device IDs it is placed on (in iteration order).
NodesOf(n) ==
  IF n = "f" THEN << [name |-> "f_A", deviceIDs |-> <<0>>],
                     [name |-> "f_B", deviceIDs |-> <<1>>] >>
  ELSE IF n = "g" THEN << [name |-> "g_A", deviceIDs |-> <<0, 1>>] >>
  ELSE << >>

RECURSIVE PairsFrom(_, _, _)
\* The (node, device) pairs in the order removeNetwork's nested loops visit
\* them; last marks the last device of a node.
PairsFrom(nodes, ni, di) ==
  IF ni > Len(nodes) THEN << >>
  ELSE IF di > Len(nodes[ni].deviceIDs) THEN PairsFrom(nodes, ni + 1, 1)
  ELSE << [node |-> nodes[ni].name, device |-> nodes[ni].deviceIDs[di],
           last |-> (di = Len(nodes[ni].deviceIDs))] >>
       \o PairsFrom(nodes, ni, di + 1)

\* Only the first node of the DAG is visited.
EvictPairs_firstnode(n) == PairsFrom(<< NodesOf(n)[1] >>, 1, 1)

EvictPairs(n) == PairsFrom(NodesOf(n), 1, 1)

NodeNames(n) == {NodesOf(n)[i].name : i \in 1..Len(NodesOf(n))}

Residency(n) == {<<EvictPairs(n)[i].node, EvictPairs(n)[i].device>> :
                   i \in 1..Len(EvictPairs(n))}

VARIABLES
  networks_,            \* the registry: name -> [dag, module, refcount]
  networkLock_,         \* holder of the registry mutex (NoThread = free)
  totalRequestCount_,   \* run identifier counter
  activeRequestCount_,  \* global in-flight counter
  config_,              \* HostConfig: [maxActiveRequests]
  executor_,            \* [shutdown]
  devices_,             \* device id -> [backend, stopped]
  provisioner_,         \* node names the provisioner tracks
  resident,             \* <<node, device>> pairs loaded on a device
  runs,                 \* one record per runNetwork call
  th,                   \* per-thread position and locals
  nAdds,                \* addNetwork calls so far (module identities)
  nClears,              \* clearHost calls so far
  assertOk              \* FALSE once the DCHECK_EQ of clearHost failed

vars == << networks_, networkLock_, totalRequestCount_, activeRequestCount_,
           config_, executor_, devices_, provisioner_, resident, runs, th,
           nAdds, nClears, assertOk >>

\* ---------------------------------------------------------------- helpers
Idle ==
  [pc |-> "idle", op |-> "none", name |-> Null, fns |-> {}, profile |-> FALSE,
   module |-> 0, currentRun |-> -1, call |-> 0, network |-> Null,
   activeRequestCount |-> 0, blocking |-> FALSE, i |-> 0, err |-> "ok",
   caller |-> "none", result |-> "none", evicts |-> {}, removed |-> {},
   before |-> {}, acks |-> << >>]

NewRun(name, id) ==
  [name |-> name, id |-> id, path |-> "start", st |-> "none", err |-> "ok",
   cbCount |-> 0, cbId |-> -1, cbErr |-> "none", ret |-> -1, root |-> Null,
   inc |-> FALSE, holdsRef |-> FALSE, counted |-> FALSE, late |-> FALSE]

NewEntry == [dag |-> Null, module |-> 0, refcount |-> 0]

\* A call that is over on both sides (runNetwork has returned to its caller and
\* the completion wrapper, if any, has returned to the Executor) keeps only its
\* identifiers and its callback count.
Retire(r) ==
  [NewRun(Null, r.id) EXCEPT !.path = "retired", !.st = "done",
                             !.cbCount = r.cbCount, !.cbId = r.cbId,
                             !.ret = r.ret]

\* OneErrOnly::set : keeps the first error.
OneErrSet(cur, e) == IF cur = "ok" THEN e ELSE cur

\* The id of the lock holder that stands for the completion wrapper of run k.
Wrapper(k) == 0 - k

\* Runs handed to an executor whose completion wrapper has not returned.
InFlight == {k \in 1..Len(runs) : runs[k].st \notin {"none", "done"}}

\* std::map::find(name) != end()
Found(name) == name \in DOMAIN networks_

\* The thread that made call k is still inside it (or has not yet left it).
CallerActive(k) ==
  \E t \in Thread : th[t].call = k /\ th[t].pc # "idle"

\* The callback is invoked a second time.
Callback_twice(rs, k, id, err) ==
  [rs EXCEPT ![k].cbCount = @ + 2, ![k].cbId = id, ![k].cbErr = err]

\* The caller's callback invoked with (id, err) for call k.
Callback(rs, k, id, err) ==
  [rs EXCEPT ![k].cbCount = @ + 1, ![k].cbId = id, ![k].cbErr = err]

Release(t) == networkLock_' = NoThread

\* The (node, device) pairs removeNetwork iterates over: the nodes of the
\* DAG of the entry its iterator points at (lines 193-195).
RmPairs(t) ==
  IF Found(th[t].network) THEN EvictPairs(networks_[th[t].network].dag)
  ELSE << >>

\* A thread other than t is about to insert into or erase from the std::map
\* (lines 167-171, 211) inside its critical section.
MapWriterPending(t) ==
  \E u \in Thread \ {t} :
     \/ th[u].pc = "add_provision"
     \/ th[u].pc = "rm_evict" /\ th[u].i > Len(RmPairs(u))

\* What a read of the registry made without the lock can yield: the value v,
\* or, when it races with a writer of the map (a data race), any of others.
RacyRead(t, v, others) ==
  IF MapWriterPending(t) THEN {v} \cup others ELSE {v}

\* ------------------------------------------------------------------- Init
Init ==
  /\ networks_ = << >>
  /\ networkLock_ = NoThread
  /\ totalRequestCount_ = 0
  /\ activeRequestCount_ = 0
  /\ config_ \in {[maxActiveRequests |-> m] : m \in 1..MaxActiveCfg}
  /\ executor_ = [shutdown |-> FALSE]
  /\ devices_ = [d \in Device |-> [backend |-> "native", stopped |-> FALSE]]
  /\ provisioner_ = {}
  /\ resident = {}
  /\ runs = << >>
  /\ th = [t \in Thread |-> Idle]
  /\ nAdds = 0
  /\ nClears = 0
  /\ assertOk = TRUE

\* ------------------------------------------------------------- runNetwork
\* The increment of the refcount is lost.
IncRef_lost(nets, n) == nets

\* refcount++ on the entry of name n (line 286).
IncRef(nets, n) == [nets EXCEPT ![n].refcount = @ + 1]

\* The refcount is reset instead of decremented.
DecRef_reset(nets, n) == [nets EXCEPT ![n].refcount = 0]

\* refcount-- on the entry of name n (lines 302, 322).
DecRef(nets, n) == [nets EXCEPT ![n].refcount = @ - 1]

\* The counter is read but the increment is lost.
NextRunId_lost(c) == c

\* totalRequestCount_++ : the value after the post-increment.
NextRunId(c) == c + 1

\* line 278: auto currentRun = totalRequestCount_++ (also entered from
\* runNetworkBlocking, line 252).
RunNetworkCall(t, name, blocking) ==
  /\ th[t].pc = "idle"
  /\ Len(runs) < MaxRuns
  /\ totalRequestCount_' = NextRunId(totalRequestCount_)
  /\ runs' = Append(runs, NewRun(name, totalRequestCount_))
  /\ th' = [th EXCEPT ![t] = [Idle EXCEPT !.pc = "run_acquire",
                                !.op = IF blocking THEN "runNetworkBlocking"
                                       ELSE "runNetwork",
                                !.name = name, !.blocking = blocking,
                                !.currentRun = totalRequestCount_,
                                !.call = Len(runs) + 1]]
  /\ UNCHANGED << networks_, networkLock_, activeRequestCount_, config_,
                  executor_, devices_, provisioner_, resident, nAdds, nClears,
                  assertOk >>

\* line 282: lock_guard networkLock(networkLock_)
RunAcquire(t) ==
  /\ th[t].pc = "run_acquire"
  /\ networkLock_ = NoThread
  /\ networkLock_' = t
  /\ th' = [th EXCEPT ![t].pc = "run_find"]
  /\ UNCHANGED << networks_, totalRequestCount_, activeRequestCount_, config_,
                  executor_, devices_, provisioner_, resident, runs, nAdds,
                  nClears, assertOk >>

\* lines 283-288: find; network = &it->second; refcount++; unlock.
RunFind(t) ==
  /\ th[t].pc = "run_find"
  /\ IF Found(th[t].name)
       THEN /\ networks_' = IncRef(networks_, th[t].name)
            /\ runs' = [runs EXCEPT ![th[t].call].holdsRef = TRUE,
                                    ![th[t].call].inc = TRUE]
            /\ th' = [th EXCEPT ![t].pc = "run_check",
                                ![t].network = th[t].name]
       ELSE /\ th' = [th EXCEPT ![t].pc = "run_check", ![t].network = Null]
            /\ UNCHANGED << networks_, runs >>
  /\ Release(t)
  /\ UNCHANGED << totalRequestCount_, activeRequestCount_, config_, executor_,
                  devices_, provisioner_, resident, nAdds, nClears, assertOk >>

\* runNetworkBlocking returns without waiting on the future.
AfterRun_nowait(t) == "ret"

\* Where runNetwork goes when it returns: runNetworkBlocking continues at
\* fut.wait() (line 266).
AfterRun(t) == IF th[t].blocking THEN "rnb_wait" ELSE "ret"

\* The null test is dropped.
NotFound_never(network) == FALSE

\* line 290: network == nullptr
NotFound(network) == network = Null

\* lines 290-297: the not-found path; line 299: activeRequestCount_++.
RunCheck(t) ==
  /\ th[t].pc = "run_check"
  /\ IF NotFound(th[t].network)
       THEN /\ runs' = [Callback(runs, th[t].call, th[t].currentRun, "NotFound")
                          EXCEPT ![th[t].call].path = "notfound",
                                 ![th[t].call].ret = th[t].currentRun]
            /\ th' = [th EXCEPT ![t].pc = AfterRun(t),
                                ![t].result = "returned"]
            /\ UNCHANGED activeRequestCount_
       ELSE /\ activeRequestCount_' = activeRequestCount_ + 1
            /\ th' = [th EXCEPT ![t].pc = "run_admit",
                                ![t].activeRequestCount = activeRequestCount_]
            /\ runs' = [runs EXCEPT ![th[t].call].counted = TRUE]
  /\ UNCHANGED << networks_, networkLock_, totalRequestCount_, config_,
                  executor_, devices_, provisioner_, resident, nAdds, nClears,
                  assertOk >>

\* The admission test is off by one.
Refuse_offbyone(activeRequestCount, maxActiveRequests) ==
  activeRequestCount > maxActiveRequests

\* The admission test uses the value after the increment.
Refuse_postinc(activeRequestCount, maxActiveRequests) ==
  activeRequestCount + 1 >= maxActiveRequests

\* line 300: the admission test on the value read by the post-increment.
Refuse(activeRequestCount, maxActiveRequests) ==
  activeRequestCount >= maxActiveRequests

\* lines 300-301: refused -> activeRequestCount_--; else on to executor.run.
RunAdmit(t) ==
  /\ th[t].pc = "run_admit"
  /\ IF Refuse(th[t].activeRequestCount, config_.maxActiveRequests)
       THEN /\ activeRequestCount_' = activeRequestCount_ - 1
            /\ runs' = [runs EXCEPT ![th[t].call].counted = FALSE]
            /\ th' = [th EXCEPT ![t].pc = "run_refuse_ref"]
       ELSE /\ th' = [th EXCEPT ![t].pc = "run_exec"]
            /\ UNCHANGED << activeRequestCount_, runs >>
  /\ UNCHANGED << networks_, networkLock_, totalRequestCount_, config_,
                  executor_, devices_, provisioner_, resident, nAdds,
                  nClears, assertOk >>

\* The refusal path forgets to give the reference back.
RunRefuseRef_skip(t) ==
  /\ th[t].pc = "run_refuse_ref"
  /\ runs' = [runs EXCEPT ![th[t].call].holdsRef = FALSE]
  /\ th' = [th EXCEPT ![t].pc = "run_refuse_cb"]
  /\ UNCHANGED << networks_, networkLock_, totalRequestCount_,
                  activeRequestCount_, config_, executor_, devices_,
                  provisioner_, resident, nAdds, nClears, assertOk >>

\* line 302: network->refcount-- through the pointer taken under the lock
\* (the lock is not held here).
RunRefuseRef(t) ==
  /\ th[t].pc = "run_refuse_ref"
  /\ networks_' = IF Found(th[t].network)
                    THEN DecRef(networks_, th[t].network)
                    ELSE networks_
  /\ runs' = [runs EXCEPT ![th[t].call].holdsRef = FALSE]
  /\ th' = [th EXCEPT ![t].pc = "run_refuse_cb"]
  /\ UNCHANGED << networkLock_, totalRequestCount_, activeRequestCount_,
                  config_, executor_, devices_, provisioner_, resident, nAdds,
                  nClears, assertOk >>

\* lines 303-310: callback(currentRun, RequestRefused); return currentRun.
RunRefuseCb(t) ==
  /\ th[t].pc = "run_refuse_cb"
  /\ runs' = [Callback(runs, th[t].call, th[t].currentRun, "Refused")
                EXCEPT ![th[t].call].path = "refused",
                       ![th[t].call].ret = th[t].currentRun]
  /\ th' = [th EXCEPT ![t].pc = AfterRun(t), ![t].result = "returned"]
  /\ UNCHANGED << networks_, networkLock_, totalRequestCount_,
                  activeRequestCount_, config_, executor_, devices_,
                  provisioner_, resident, nAdds, nClears, assertOk >>

\* lines 313-330: networks_[networkName].dag.root.get() is evaluated without
\* the lock (operator[] default-constructs a missing entry); the run is
\* handed to the Executor and runNetwork returns currentRun.
RunExec(t) ==
  /\ th[t].pc = "run_exec"
  /\ networks_' = IF Found(th[t].name) THEN networks_
                  ELSE [n \in DOMAIN networks_ \cup {th[t].name} |->
                          IF n \in DOMAIN networks_ THEN networks_[n]
                          ELSE NewEntry]
  /\ \E r \in RacyRead(t, networks_'[th[t].name].dag, {"garbage"}) :
     runs' = [runs EXCEPT ![th[t].call].path = "forwarded",
                          ![th[t].call].st = "queued",
                          ![th[t].call].late = executor_.shutdown,
                          ![th[t].call].root = r,
                          ![th[t].call].ret = th[t].currentRun]
  /\ th' = [th EXCEPT ![t].pc = AfterRun(t), ![t].result = "returned"]
  /\ UNCHANGED << networkLock_, totalRequestCount_, activeRequestCount_,
                  config_, executor_, devices_, provisioner_, resident, nAdds,
                  nClears, assertOk >>

\* ------------------------------------------------- the completion wrapper
\* The Executor completes run k and invokes the completion callback it was
\* given, once, with success or the first error; an executor that had been
\* shut down when the run was handed to it only reports an error.
ExecutorComplete(k, e) ==
  /\ k \in 1..Len(runs)
  /\ runs[k].st = "queued"
  /\ runs[k].late => e # "ok"
  /\ runs' = [runs EXCEPT ![k].st = "wrap_acquire", ![k].err = e]
  /\ UNCHANGED << networks_, networkLock_, totalRequestCount_,
                  activeRequestCount_, config_, executor_, devices_,
                  provisioner_, resident, th, nAdds, nClears, assertOk >>

\* line 319: the wrapper takes the registry lock.
WrapAcquire(k) ==
  /\ k \in 1..Len(runs)
  /\ runs[k].st = "wrap_acquire"
  /\ networkLock_ = NoThread
  /\ networkLock_' = Wrapper(k)
  /\ runs' = [runs EXCEPT ![k].st = "wrap_find"]
  /\ UNCHANGED << networks_, totalRequestCount_, activeRequestCount_, config_,
                  executor_, devices_, provisioner_, resident, th, nAdds,
                  nClears, assertOk >>

\* The wrapper forgets to give the reference back.
WrapFind_nodec(k) ==
  /\ k \in 1..Len(runs)
  /\ runs[k].st = "wrap_find"
  /\ runs' = [runs EXCEPT ![k].st = "wrap_cb", ![k].holdsRef = FALSE]
  /\ networkLock_' = NoThread
  /\ UNCHANGED << networks_, totalRequestCount_, activeRequestCount_, config_,
                  executor_, devices_, provisioner_, resident, th, nAdds,
                  nClears, assertOk >>

\* lines 320-324: find(name); refcount--; unlock.
WrapFind(k) ==
  /\ k \in 1..Len(runs)
  /\ runs[k].st = "wrap_find"
  /\ networks_' = IF Found(runs[k].name)
                    THEN DecRef(networks_, runs[k].name)
                    ELSE networks_
  /\ runs' = [runs EXCEPT ![k].st = "wrap_cb", ![k].holdsRef = FALSE]
  /\ networkLock_' = NoThread
  /\ UNCHANGED << totalRequestCount_, activeRequestCount_, config_, executor_,
                  devices_, provisioner_, resident, th, nAdds, nClears,
                  assertOk >>

\* The wrapper reports success whatever the Executor reported.
WrapCallback_swallow(k) ==
  /\ k \in 1..Len(runs)
  /\ runs[k].st = "wrap_cb"
  /\ runs' = [Callback(runs, k, runs[k].id, "ok")
                EXCEPT ![k].st = "wrap_dec"]
  /\ UNCHANGED << networks_, networkLock_, totalRequestCount_,
                  activeRequestCount_, config_, executor_, devices_,
                  provisioner_, resident, th, nAdds, nClears, assertOk >>

\* line 327: callback(runID, err, context).
WrapCallback(k) ==
  /\ k \in 1..Len(runs)
  /\ runs[k].st = "wrap_cb"
  /\ runs' = [Callback(runs, k, runs[k].id, runs[k].err)
                EXCEPT ![k].st = "wrap_dec"]
  /\ UNCHANGED << networks_, networkLock_, totalRequestCount_,
                  activeRequestCount_, config_, executor_, devices_,
                  provisioner_, resident, th, nAdds, nClears, assertOk >>

\* line 328: --activeRequestCount_; the wrapper returns to the Executor.
WrapDec(k) ==
  /\ k \in 1..Len(runs)
  /\ runs[k].st = "wrap_dec"
  /\ activeRequestCount_' = activeRequestCount_ - 1
  /\ runs' = IF CallerActive(k)
              THEN [runs EXCEPT ![k].st = "done", ![k].counted = FALSE]
              ELSE [runs EXCEPT ![k] = Retire(@)]
  /\ UNCHANGED << networks_, networkLock_, totalRequestCount_, config_,
                  executor_, devices_, provisioner_, resident, th, nAdds,
                  nClears, assertOk >>

\* lines 266-267: fut.wait() returns once the callback has set the promise;
\* runNetworkBlocking returns the error the callback received.
RnbWait(t) ==
  /\ th[t].pc = "rnb_wait"
  /\ runs[th[t].call].cbCount > 0
  /\ th' = [th EXCEPT ![t].pc = "ret", ![t].result = runs[th[t].call].cbErr]
  /\ UNCHANGED << networks_, networkLock_, totalRequestCount_,
                  activeRequestCount_, config_, executor_, devices_,
                  provisioner_, resident, runs, nAdds, nClears, assertOk >>

\* ------------------------------------------------------------- addNetwork
\* line 95: addNetwork(module, cctx, saturateHost) is called; the module
\* handed over is a fresh one (identified by the call's ordinal).
AddNetworkCall(t, fns, profile) ==
  /\ th[t].pc = "idle"
  /\ nAdds < MaxAdds
  /\ nAdds' = nAdds + 1
  /\ th' = [th EXCEPT ![t] = [Idle EXCEPT !.pc = "add_acquire",
                                !.op = "addNetwork", !.fns = fns,
                                !.profile = profile, !.module = nAdds + 1]]
  /\ UNCHANGED << networks_, networkLock_, totalRequestCount_,
                  activeRequestCount_, config_, executor_, devices_,
                  provisioner_, resident, runs, nClears, assertOk >>

\* line 98: lock_guard networkLock(networkLock_), held until return.
AddAcquire(t) ==
  /\ th[t].pc = "add_acquire"
  /\ networkLock_ = NoThread
  /\ networkLock_' = t
  /\ th' = [th EXCEPT ![t].pc = "add_check"]
  /\ UNCHANGED << networks_, totalRequestCount_, activeRequestCount_, config_,
                  executor_, devices_, provisioner_, resident, runs, nAdds,
                  nClears, assertOk >>

\* The collision check is skipped.
Collides_never(fns) == FALSE

\* lines 100-108: some function of the module is already registered.
Collides(fns) == \E n \in fns : Found(n)

\* lines 99-108: the name-collision check.
AddCheck(t) ==
  /\ th[t].pc = "add_check"
  /\ IF Collides(th[t].fns)
       THEN /\ th' = [th EXCEPT ![t].pc = "ret", ![t].result = "Dup"]
            /\ Release(t)
       ELSE /\ th' = [th EXCEPT ![t].pc = "add_partition"]
            /\ UNCHANGED networkLock_
  /\ UNCHANGED << networks_, totalRequestCount_, activeRequestCount_, config_,
                  executor_, devices_, provisioner_, resident, runs, nAdds,
                  nClears, assertOk >>

\* lines 147-154: devices_[i] is replaced by a profiling-backend device and
\* initialised, for i = 0.. ; k is the first device whose init() fails
\* (k = Cardinality(Device) when none fails).
ReinitDevices(k) ==
  [d \in Device |-> IF d <= k THEN [backend |-> "profiling", stopped |-> FALSE]
                    ELSE devices_[d]]

\* The precondition of profiling mode is not checked.
RegistryEmpty_always == TRUE

\* line 141: networks_.size() == 0
RegistryEmpty == DOMAIN networks_ = {}

\* lines 120-157: device info, optimizeFunctionBeforeLowering, partition, and
\* in profiling mode the empty-registry precondition and the replacement of
\* the devices.
AddPartition(t, outcome, k) ==
  /\ th[t].pc = "add_partition"
  /\ outcome \in {"ok", "OptFail", "PartFail"}
  /\ k \in 0..Cardinality(Device)
  /\ IF outcome # "ok"
         THEN /\ th' = [th EXCEPT ![t].pc = "ret", ![t].result = outcome]
              /\ Release(t)
              /\ UNCHANGED << devices_, resident >>
         ELSE IF ~th[t].profile
           THEN /\ th' = [th EXCEPT ![t].pc = "add_provision"]
                /\ UNCHANGED << networkLock_, devices_, resident >>
           ELSE IF ~RegistryEmpty
             THEN /\ th' = [th EXCEPT ![t].pc = "ret",
                                      ![t].result = "ProfileNotEmpty"]
                  /\ Release(t)
                  /\ UNCHANGED << devices_, resident >>
             ELSE   /\ devices_' = ReinitDevices(k)
                    /\ resident' = {p \in resident : p[2] > k}
                    /\ IF k < Cardinality(Device)
                         THEN /\ th' = [th EXCEPT ![t].pc = "ret",
                                                  ![t].result = "InitFail"]
                              /\ Release(t)
                         ELSE /\ th' = [th EXCEPT ![t].pc = "add_reset"]
                              /\ UNCHANGED networkLock_
  /\ UNCHANGED << networks_, totalRequestCount_, activeRequestCount_, config_,
                  executor_, provisioner_, runs, nAdds, nClears, assertOk >>

\* lines 155-156: provisioner_.reset(...), executor_.reset(...); destroying
\* the old executor waits for its in-flight runs.
AddReset(t) ==
  /\ th[t].pc = "add_reset"
  /\ InFlight = {}
  /\ provisioner_' = {}
  /\ executor_' = [shutdown |-> FALSE]
  /\ th' = [th EXCEPT ![t].pc = "add_provision"]
  /\ UNCHANGED << networks_, networkLock_, totalRequestCount_,
                  activeRequestCount_, config_, devices_, resident, runs,
                  nAdds, nClears, assertOk >>

\* Only the first DAG of the module is inserted.
InsertNetworks_first(fns, module) ==
  LET first == {CHOOSE n \in fns : TRUE} IN
  [n \in DOMAIN networks_ \cup first |->
     IF n \in first
       THEN [dag |-> n, module |-> module,
             refcount |-> IF Found(n) THEN networks_[n].refcount ELSE 0]
       ELSE networks_[n]]

\* lines 167-171: networks_[(node.root)->name] = {dag, sharedModule}; an
\* existing entry keeps its refcount.
InsertNetworks(fns, module) ==
  [n \in DOMAIN networks_ \cup fns |->
     IF n \in fns
       THEN [dag |-> n, module |-> module,
             refcount |-> IF Found(n) THEN networks_[n].refcount ELSE 0]
       ELSE networks_[n]]

\* lines 159-173: provision (a failure leaves nothing of this attempt loaded),
\* strip, insert one entry per DAG, return success.
AddProvision(t, outcome) ==
  /\ th[t].pc = "add_provision"
  /\ outcome \in {"ok", "ProvFail"}
  /\ IF outcome = "ok"
         THEN /\ networks_' = InsertNetworks(th[t].fns, th[t].module)
              /\ provisioner_' =
                   provisioner_ \cup UNION {NodeNames(n) : n \in th[t].fns}
              /\ resident' =
                   resident \cup UNION {Residency(n) : n \in th[t].fns}
              /\ th' = [th EXCEPT ![t].pc = "ret", ![t].result = "ok"]
         ELSE /\ th' = [th EXCEPT ![t].pc = "ret", ![t].result = outcome]
              /\ UNCHANGED << networks_, provisioner_, resident >>
  /\ Release(t)
  /\ UNCHANGED << totalRequestCount_, activeRequestCount_, config_, executor_,
                  devices_, runs, nAdds, nClears, assertOk >>

\* ---------------------------------------------------------- removeNetwork
\* line 176: removeNetwork(networkName) is called by a client.
RemoveNetworkCall(t, name) ==
  /\ th[t].pc = "idle"
  /\ th' = [th EXCEPT ![t] = [Idle EXCEPT !.pc = "rm_acquire",
                                !.op = "removeNetwork", !.name = name]]
  /\ UNCHANGED << networks_, networkLock_, totalRequestCount_,
                  activeRequestCount_, config_, executor_, devices_,
                  provisioner_, resident, runs, nAdds, nClears, assertOk >>

\* line 177: lock_guard networkLock(networkLock_), held until return.
RmAcquire(t) ==
  /\ th[t].pc = "rm_acquire"
  /\ networkLock_ = NoThread
  /\ networkLock_' = t
  /\ th' = [th EXCEPT ![t].pc = "rm_find"]
  /\ UNCHANGED << networks_, totalRequestCount_, activeRequestCount_, config_,
                  executor_, devices_, provisioner_, resident, runs, nAdds,
                  nClears, assertOk >>

\* Where removeNetwork returns to: its client, or clearHost's loop.
RmRet(t) == IF th[t].caller = "clearHost" THEN "clear_after_rm" ELSE "ret"

\* The outstanding-runs check is skipped.
Busy_never(entry) == FALSE

\* line 184: the network has outstanding runs.
Busy(entry) == entry.refcount # 0

\* An absent name is reported as an error.
RmFind_absentfails(t) ==
  /\ th[t].pc = "rm_find"
  /\ IF ~Found(th[t].name)
       THEN /\ th' = [th EXCEPT ![t].pc = RmRet(t), ![t].result = "NotFound"]
            /\ Release(t)
       ELSE IF Busy(networks_[th[t].name])
         THEN /\ th' = [th EXCEPT ![t].pc = RmRet(t), ![t].result = "Busy"]
              /\ Release(t)
         ELSE /\ th' = [th EXCEPT ![t].pc = "rm_evict",
                                  ![t].network = th[t].name,
                                  ![t].i = 1, ![t].err = "ok"]
              /\ UNCHANGED networkLock_
  /\ UNCHANGED << networks_, totalRequestCount_, activeRequestCount_, config_,
                  executor_, devices_, provisioner_, resident, runs, nAdds,
                  nClears, assertOk >>

\* lines 178-192: absent -> success; refcount != 0 -> busy; else start the
\* eviction loop.
RmFind(t) ==
  /\ th[t].pc = "rm_find"
  /\ IF ~Found(th[t].name)
       THEN /\ th' = [th EXCEPT ![t].pc = RmRet(t), ![t].result = "ok"]
            /\ Release(t)
       ELSE IF Busy(networks_[th[t].name])
         THEN /\ th' = [th EXCEPT ![t].pc = RmRet(t), ![t].result = "Busy"]
              /\ Release(t)
         ELSE /\ th' = [th EXCEPT ![t].pc = "rm_evict",
                                  ![t].network = th[t].name,
                                  ![t].i = 1, ![t].err = "ok"]
              /\ UNCHANGED networkLock_
  /\ UNCHANGED << networks_, totalRequestCount_, activeRequestCount_, config_,
                  executor_, devices_, provisioner_, resident, runs, nAdds,
                  nClears, assertOk >>

\* The entry is not erased.
Erase_none(name) == networks_

\* line 211: networks_.erase(networkIterator)
Erase(name) == [n \in DOMAIN networks_ \ {name} |-> networks_[n]]

\* lines 194-205: issue evictNetwork for the next (node, device) pair and
\* wait on the future; lines 211-213 after the loops: erase, return err.get().
RmEvict(t) ==
  /\ th[t].pc = "rm_evict"
  /\ IF th[t].i <= Len(RmPairs(t))
       THEN /\ th' = [th EXCEPT ![t].pc = "rm_wait",
                        ![t].evicts = @ \cup {<<RmPairs(t)[th[t].i].node,
                                                RmPairs(t)[th[t].i].device>>}]
            /\ UNCHANGED << networks_, networkLock_ >>
       ELSE /\ networks_' = Erase(th[t].network)
            /\ th' = [th EXCEPT ![t].pc = RmRet(t), ![t].result = th[t].err]
            /\ Release(t)
  /\ UNCHANGED << totalRequestCount_, activeRequestCount_, config_, executor_,
                  devices_, provisioner_, resident, runs, nAdds, nClears,
                  assertOk >>

\* lines 201-210: the device acknowledges the eviction with success or an
\* error; done.get() returns, err.set(removeErr); after the last device of a
\* node, provisioner_->removeFunction(node->name).
RmAck(t, e) ==
  /\ th[t].pc = "rm_wait"
  /\ e \in {"ok", "DevErr", "DevErr2"}
  /\ LET p == RmPairs(t)[th[t].i] IN
       /\ resident' = IF e = "ok" THEN resident \ {<<p.node, p.device>>}
                      ELSE resident
       /\ provisioner_' = IF p.last THEN provisioner_ \ {p.node}
                          ELSE provisioner_
       /\ th' = [th EXCEPT ![t].pc = "rm_evict", ![t].i = @ + 1,
                           ![t].err = OneErrSet(@, e),
                           ![t].acks = Append(@, e),
                           ![t].removed = IF p.last THEN @ \cup {p.node}
                                          ELSE @]
  /\ UNCHANGED << networks_, networkLock_, totalRequestCount_,
                  activeRequestCount_, config_, executor_, devices_, runs,
                  nAdds, nClears, assertOk >>

\* ----------------------------------------------- networkAdded, getNetworkDAG
\* lines 216-217: networkAdded(name) takes the lock.
NetworkAddedCall(t, name) ==
  /\ th[t].pc = "idle"
  /\ networkLock_ = NoThread
  /\ networkLock_' = t
  /\ th' = [th EXCEPT ![t] = [Idle EXCEPT !.pc = "na_find",
                                !.op = "networkAdded", !.name = name]]
  /\ UNCHANGED << networks_, totalRequestCount_, activeRequestCount_, config_,
                  executor_, devices_, provisioner_, resident, runs, nAdds,
                  nClears, assertOk >>

\* line 218: return networks_.find(networkName) != networks_.end()
NetworkAddedFind(t) ==
  /\ th[t].pc = "na_find"
  /\ th' = [th EXCEPT ![t].pc = "ret",
                      ![t].result = IF Found(th[t].name) THEN "true"
                                    ELSE "false"]
  /\ Release(t)
  /\ UNCHANGED << networks_, totalRequestCount_, activeRequestCount_, config_,
                  executor_, devices_, provisioner_, resident, runs, nAdds,
                  nClears, assertOk >>

\* line 63: getNetworkDAG(network) is called; no lock is taken.
GetNetworkDAGCall(t, name) ==
  /\ th[t].pc = "idle"
  /\ th' = [th EXCEPT ![t] = [Idle EXCEPT !.pc = "dag_find",
                                !.op = "getNetworkDAG", !.name = name]]
  /\ UNCHANGED << networks_, networkLock_, totalRequestCount_,
                  activeRequestCount_, config_, executor_, devices_,
                  provisioner_, resident, runs, nAdds, nClears, assertOk >>

\* lines 64-68: find without the lock; return the entry's DAG or an error.
GetNetworkDAGFind(t) ==
  /\ th[t].pc = "dag_find"
  /\ \E r \in RacyRead(t, IF Found(th[t].name) THEN networks_[th[t].name].dag
                          ELSE "NotFound", {"garbage", "NotFound"}) :
       th' = [th EXCEPT ![t].pc = "ret", ![t].result = r]
  /\ UNCHANGED << networks_, networkLock_, totalRequestCount_,
                  activeRequestCount_, config_, executor_, devices_,
                  provisioner_, resident, runs, nAdds, nClears, assertOk >>

\* -------------------------------------------------------------- clearHost
\* line 224: executor_->shutdown() begins: the executor stops accepting work.
ClearHostCall(t) ==
  /\ th[t].pc = "idle"
  /\ nClears < MaxClears
  /\ nClears' = nClears + 1
  /\ executor_' = [shutdown |-> TRUE]
  /\ th' = [th EXCEPT ![t] = [Idle EXCEPT !.pc = "clear_drain",
                                !.op = "clearHost",
                                !.before = InFlight]]
  /\ UNCHANGED << networks_, networkLock_, totalRequestCount_,
                  activeRequestCount_, config_, devices_, provisioner_,
                  resident, runs, nAdds, assertOk >>

\* line 224: shutdown() returns once no run is in flight in the executor.
ClearDrain(t) ==
  /\ th[t].pc = "clear_drain"
  /\ InFlight = {}
  /\ th' = [th EXCEPT ![t].pc = "clear_dcheck"]
  /\ UNCHANGED << networks_, networkLock_, totalRequestCount_,
                  activeRequestCount_, config_, executor_, devices_,
                  provisioner_, resident, runs, nAdds, nClears, assertOk >>

\* line 226: DCHECK_EQ(activeRequestCount_, 0)
ClearDcheck(t) ==
  /\ th[t].pc = "clear_dcheck"
  /\ assertOk' = (assertOk /\ activeRequestCount_ = 0)
  /\ th' = [th EXCEPT ![t].pc = "clear_loop"]
  /\ UNCHANGED << networks_, networkLock_, totalRequestCount_,
                  activeRequestCount_, config_, executor_, devices_,
                  provisioner_, resident, runs, nAdds, nClears >>

\* networks_.begin()->first : the smallest registered name, Null when empty.
Begin ==
  IF DOMAIN networks_ = {} THEN Null
  ELSE IF "f" \in DOMAIN networks_ THEN "f" ELSE "g"

\* clearHost takes the registry mutex before its loop and still holds it when
\* it calls removeNetwork.
ClearLoop_locked(t) ==
  /\ th[t].pc = "clear_loop"
  /\ networkLock_ = NoThread
  /\ \E b \in RacyRead(t, Begin, Names \cup {Null}) :
       IF b # Null
         THEN /\ th' = [th EXCEPT ![t].pc = "rm_acquire", ![t].name = b,
                                  ![t].caller = "clearHost"]
              /\ networkLock_' = t
         ELSE /\ th' = [th EXCEPT ![t].pc = "clear_acquire"]
              /\ UNCHANGED networkLock_
  /\ UNCHANGED << networks_, totalRequestCount_,
                  activeRequestCount_, config_, executor_, devices_,
                  provisioner_, resident, runs, nAdds, nClears, assertOk >>

\* lines 230-231 and 235: networks_.size() and networks_.begin() are read
\* without the lock; a non-empty registry calls removeNetwork on the first
\* name, an empty one goes on to lock and stop the devices.
ClearLoop(t) ==
  /\ th[t].pc = "clear_loop"
  /\ \E b \in RacyRead(t, Begin, Names \cup {Null}) :
       IF b # Null
         THEN th' = [th EXCEPT ![t].pc = "rm_acquire", ![t].name = b,
                               ![t].caller = "clearHost"]
         ELSE th' = [th EXCEPT ![t].pc = "clear_acquire"]
  /\ UNCHANGED << networks_, networkLock_, totalRequestCount_,
                  activeRequestCount_, config_, executor_, devices_,
                  provisioner_, resident, runs, nAdds, nClears, assertOk >>

\* line 231: RETURN_IF_ERR(removeNetwork(...)).
ClearAfterRm(t) ==
  /\ th[t].pc = "clear_after_rm"
  /\ IF th[t].result # "ok"
       THEN th' = [th EXCEPT ![t].pc = "ret"]
       ELSE th' = [th EXCEPT ![t].pc = "clear_loop", ![t].result = "none",
                             ![t].network = Null, ![t].i = 0]
  /\ UNCHANGED << networks_, networkLock_, totalRequestCount_,
                  activeRequestCount_, config_, executor_, devices_,
                  provisioner_, resident, runs, nAdds, nClears, assertOk >>

\* line 235: lock_guard networkLock(networkLock_)
ClearAcquire(t) ==
  /\ th[t].pc = "clear_acquire"
  /\ networkLock_ = NoThread
  /\ networkLock_' = t
  /\ th' = [th EXCEPT ![t].pc = "clear_stop"]
  /\ UNCHANGED << networks_, totalRequestCount_, activeRequestCount_, config_,
                  executor_, devices_, provisioner_, resident, runs, nAdds,
                  nClears, assertOk >>

\* OneErrOnly over the devices in id order: the first stop() error.
FirstErr(errs) ==
  IF errs[0] # "ok" THEN errs[0] ELSE errs[1]

\* lines 236-241: stop every device, return the first error.
ClearStop(t, errs) ==
  /\ th[t].pc = "clear_stop"
  /\ errs \in [Device -> {"ok", "DevErr"}]
  /\ devices_' = [d \in Device |-> [devices_[d] EXCEPT !.stopped = TRUE]]
  /\ th' = [th EXCEPT ![t].pc = "ret", ![t].result = FirstErr(errs)]
  /\ Release(t)
  /\ UNCHANGED << networks_, totalRequestCount_, activeRequestCount_, config_,
                  executor_, provisioner_, resident, runs, nAdds, nClears,
                  assertOk >>

\* ------------------------------------------------------------------ return
\* The operation has returned to its caller; the thread is free again.
Return(t) ==
  /\ th[t].pc = "ret"
  /\ th' = [th EXCEPT ![t] = Idle]
  /\ runs' = IF th[t].call # 0 /\ runs[th[t].call].st \in {"none", "done"}
              THEN [runs EXCEPT ![th[t].call] = Retire(@)]
              ELSE runs
  /\ UNCHANGED << networks_, networkLock_, totalRequestCount_,
                  activeRequestCount_, config_, executor_, devices_,
                  provisioner_, resident, nAdds, nClears, assertOk >>

\* ------------------------------------------------------- specifications
\* Steps of a runNetwork call after its identifier was allocated.
RunSteps(t) ==
  \/ RunAcquire(t)
  \/ RunFind(t)
  \/ RunCheck(t)
  \/ RunAdmit(t)
  \/ RunRefuseRef(t)
  \/ RunRefuseCb(t)
  \/ RunExec(t)

\* Steps of the completion wrapper of run k.
WrapSteps(k) ==
  \/ WrapAcquire(k)
  \/ WrapFind(k)
  \/ WrapCallback(k)
  \/ WrapDec(k)

\* Clients register network f, run f and the unregistered g, and remove f,
\* concurrently; the Executor completes runs with success or an error.
NextRun ==
  \/ \E t \in Thread, n \in Names : RunNetworkCall(t, n, FALSE)
  \/ \E t \in Thread : RunSteps(t)
  \/ \E k \in 1..MaxRuns, e \in {"ok", "ExecFail"} : ExecutorComplete(k, e)
  \/ \E k \in 1..MaxRuns : WrapSteps(k)
  \/ \E t \in Thread : AddNetworkCall(t, {"f"}, FALSE)
  \/ \E t \in Thread : AddAcquire(t)
  \/ \E t \in Thread : AddCheck(t)
  \/ \E t \in Thread : AddPartition(t, "ok", 0)
  \/ \E t \in Thread : AddProvision(t, "ok")
  \/ \E t \in Thread : RemoveNetworkCall(t, "f")
  \/ \E t \in Thread : RmAcquire(t)
  \/ \E t \in Thread : RmFind(t)
  \/ \E t \in Thread : RmEvict(t)
  \/ \E t \in Thread : RmAck(t, "ok")
  \/ \E t \in Thread : Return(t)

SpecRun == Init /\ [][NextRun]_vars

\* One client registers and removes network f while another runs f and the
\* unregistered g; the Executor completes runs with success or an error.
NextLive ==
  \/ \E n \in Names : RunNetworkCall(2, n, FALSE)
  \/ \E t \in Thread : RunSteps(t)
  \/ \E k \in 1..MaxRuns, e \in {"ok", "ExecFail"} : ExecutorComplete(k, e)
  \/ \E k \in 1..MaxRuns : WrapSteps(k)
  \/ AddNetworkCall(1, {"f"}, FALSE)
  \/ \E t \in Thread : AddAcquire(t)
  \/ \E t \in Thread : AddCheck(t)
  \/ \E t \in Thread : AddPartition(t, "ok", 0)
  \/ \E t \in Thread : AddProvision(t, "ok")
  \/ RemoveNetworkCall(1, "f")
  \/ \E t \in Thread : RmAcquire(t)
  \/ \E t \in Thread : RmFind(t)
  \/ \E t \in Thread : RmEvict(t)
  \/ \E t \in Thread : RmAck(t, "ok")
  \/ \E t \in Thread : Return(t)

\* Fair scheduling: the Executor completes every run handed to it, the
\* registry mutex is eventually granted to a wrapper that keeps asking for it,
\* and a thread inside a critical section (or waiting for a device's
\* acknowledgment, which every device sends) keeps running.
FairLive ==
  /\ Init /\ [][NextLive]_vars
  /\ \A k \in 1..MaxRuns :
       /\ WF_vars(\E e \in {"ok", "ExecFail"} : ExecutorComplete(k, e))
       /\ SF_vars(WrapAcquire(k))
       /\ WF_vars(WrapFind(k))
       /\ WF_vars(WrapCallback(k))
  /\ \A t \in Thread :
       WF_vars(RunFind(t) \/ AddCheck(t) \/ AddPartition(t, "ok", 0)
               \/ AddProvision(t, "ok") \/ RmFind(t) \/ RmEvict(t)
               \/ RmAck(t, "ok"))

\* Clients add modules (any function set, profiling or not, with every
\* failure of optimisation, partitioning, device init and provisioning),
\* remove networks (devices may fail to evict) and query the registry.
NextReg ==
  \/ \E t \in Thread, fns \in ModuleFns, p \in BOOLEAN :
       AddNetworkCall(t, fns, p)
  \/ \E t \in Thread : AddAcquire(t)
  \/ \E t \in Thread : AddCheck(t)
  \/ \E t \in Thread, o \in {"ok", "OptFail", "PartFail"},
        k \in 0..Cardinality(Device) : AddPartition(t, o, k)
  \/ \E t \in Thread : AddReset(t)
  \/ \E t \in Thread, o \in {"ok", "ProvFail"} : AddProvision(t, o)
  \/ \E t \in Thread, n \in Names : RemoveNetworkCall(t, n)
  \/ \E t \in Thread : RmAcquire(t)
  \/ \E t \in Thread : RmFind(t)
  \/ \E t \in Thread : RmEvict(t)
  \/ \E t \in Thread, e \in {"ok", "DevErr"} : RmAck(t, e)
  \/ \E t \in Thread, n \in Names : NetworkAddedCall(t, n)
  \/ \E t \in Thread : NetworkAddedFind(t)
  \/ \E t \in Thread, n \in Names : GetNetworkDAGCall(t, n)
  \/ \E t \in Thread : GetNetworkDAGFind(t)
  \/ \E t \in Thread : Return(t)

SpecReg == Init /\ [][NextReg]_vars

\* One client adds modules and clears the host while another runs network f;
\* devices may fail to evict and to stop.
NextClear ==
  \/ ClearHostCall(1)
  \/ \E t \in Thread : ClearDrain(t)
  \/ \E t \in Thread : ClearDcheck(t)
  \/ \E t \in Thread : ClearLoop(t)
  \/ \E t \in Thread : ClearAfterRm(t)
  \/ \E t \in Thread : ClearAcquire(t)
  \/ \E t \in Thread, errs \in [Device -> {"ok", "DevErr"}] : ClearStop(t, errs)
  \/ \E t \in Thread : RmAcquire(t)
  \/ \E t \in Thread : RmFind(t)
  \/ \E t \in Thread : RmEvict(t)
  \/ \E t \in Thread, e \in {"ok", "DevErr"} : RmAck(t, e)
  \/ \E fns \in {{"f"}, {"f", "g"}} : AddNetworkCall(1, fns, FALSE)
  \/ \E t \in Thread : AddAcquire(t)
  \/ \E t \in Thread : AddCheck(t)
  \/ \E t \in Thread : AddPartition(t, "ok", 0)
  \/ \E t \in Thread : AddProvision(t, "ok")
  \/ RunNetworkCall(2, "f", FALSE)
  \/ \E t \in Thread : RunSteps(t)
  \/ \E k \in 1..MaxRuns, e \in {"ok", "ExecFail"} : ExecutorComplete(k, e)
  \/ \E k \in 1..MaxRuns : WrapSteps(k)
  \/ \E t \in Thread : Return(t)

SpecClear == Init /\ [][NextClear]_vars

\* One client adds the module {f, g} and removes networks while another runs
\* them.
NextTrip ==
  \/ AddNetworkCall(1, {"f", "g"}, FALSE)
  \/ \E t \in Thread : AddAcquire(t)
  \/ \E t \in Thread : AddCheck(t)
  \/ \E t \in Thread : AddPartition(t, "ok", 0)
  \/ \E t \in Thread : AddProvision(t, "ok")
  \/ \E n \in Names : RemoveNetworkCall(1, n)
  \/ \E t \in Thread : RmAcquire(t)
  \/ \E t \in Thread : RmFind(t)
  \/ \E t \in Thread : RmEvict(t)
  \/ \E t \in Thread : RmAck(t, "ok")
  \/ \E n \in Names : RunNetworkCall(2, n, FALSE)
  \/ \E t \in Thread : RunSteps(t)
  \/ \E k \in 1..MaxRuns : ExecutorComplete(k, "ok")
  \/ \E k \in 1..MaxRuns : WrapSteps(k)
  \/ \E t \in Thread : Return(t)

SpecTrip == Init /\ [][NextTrip]_vars

\* One client registers network f while another makes blocking runs of f and
\* of the unregistered g, and runs of f without waiting.
NextBlock ==
  \/ \E n \in Names : RunNetworkCall(2, n, TRUE)
  \/ RunNetworkCall(2, "f", FALSE)
  \/ \E t \in Thread : RunSteps(t)
  \/ \E t \in Thread : RnbWait(t)
  \/ \E k \in 1..MaxRuns, e \in {"ok", "ExecFail"} : ExecutorComplete(k, e)
  \/ \E k \in 1..MaxRuns : WrapSteps(k)
  \/ AddNetworkCall(1, {"f"}, FALSE)
  \/ \E t \in Thread : AddAcquire(t)
  \/ \E t \in Thread : AddCheck(t)
  \/ \E t \in Thread : AddPartition(t, "ok", 0)
  \/ \E t \in Thread : AddProvision(t, "ok")
  \/ \E t \in Thread : Return(t)

\* Fair scheduling: the Executor completes every run handed to it; a thread
\* or completion wrapper that keeps asking for the registry mutex is
\* eventually granted it; a thread inside runNetwork, runNetworkBlocking or
\* the critical section of addNetwork keeps running.
FairBlock ==
  /\ Init /\ [][NextBlock]_vars
  /\ \A k \in 1..MaxRuns :
       /\ WF_vars(\E e \in {"ok", "ExecFail"} : ExecutorComplete(k, e))
       /\ SF_vars(WrapAcquire(k))
       /\ WF_vars(WrapFind(k))
       /\ WF_vars(WrapCallback(k))
  /\ \A t \in Thread :
       /\ WF_vars(AddCheck(t) \/ AddPartition(t, "ok", 0)
                  \/ AddProvision(t, "ok"))
       /\ SF_vars(RunAcquire(t))
       /\ WF_vars(RunFind(t) \/ RunCheck(t) \/ RunAdmit(t)
                  \/ RunRefuseRef(t) \/ RunRefuseCb(t) \/ RunExec(t)
                  \/ RnbWait(t))

\* One client adds modules while another removes networks; a device may
\* acknowledge an eviction with success or with one of two errors.
NextEvict ==
  \/ \E fns \in ModuleFns : AddNetworkCall(1, fns, FALSE)
  \/ \E t \in Thread : AddAcquire(t)
  \/ \E t \in Thread : AddCheck(t)
  \/ \E t \in Thread : AddPartition(t, "ok", 0)
  \/ \E t \in Thread : AddProvision(t, "ok")
  \/ \E n \in Names : RemoveNetworkCall(2, n)
  \/ \E t \in Thread : RmAcquire(t)
  \/ \E t \in Thread : RmFind(t)
  \/ \E t \in Thread : RmEvict(t)
  \/ \E t \in Thread, e \in {"ok", "DevErr", "DevErr2"} : RmAck(t, e)
  \/ \E t \in Thread : Return(t)

SpecEvict == Init /\ [][NextEvict]_vars

\* ----------------------------------------------------------------- claims
\* Calls that passed the admission test and whose completion wrapper has not
\* returned: about to be handed to the Executor, or in flight in it.
Admitted ==
  InFlight \cup {th[t].call : t \in {u \in Thread : th[u].pc = "run_exec"}}

\* C1: the number of requests past admission (forwarded to the Executor, or
\* about to be) whose completion wrapper has not finished never exceeds
\* config.maxActiveRequests; a refused request is never handed to the
\* Executor and gets exactly the RequestRefused callback.
C1_AdmissionBound ==
  /\ Cardinality(Admitted) <= config_.maxActiveRequests
  /\ \A t \in Thread :
       th[t].pc \in {"run_refuse_ref", "run_refuse_cb"} =>
         runs[th[t].call].st = "none" /\ runs[th[t].call].cbCount = 0
  /\ \A k \in 1..Len(runs) :
       runs[k].path = "refused" =>
         runs[k].st = "none" /\ runs[k].cbCount = 1 /\ runs[k].cbErr = "Refused"

\* A call has been refused and has returned while maxActiveRequests admitted
\* runs are still in flight.
C1_Witness ==
  \E k \in 1..Len(runs) :
    /\ runs[k].path = "refused"
    /\ Cardinality(InFlight) = config_.maxActiveRequests

\* The callback of call k was invoked at most once, with the call's run
\* identifier, which is also what runNetwork returned; a call that is over
\* (returned on the not-found or refusal path, or its wrapper finished) has
\* had its callback invoked.
CallbackOnce(k) ==
  /\ runs[k].cbCount <= 1
  /\ runs[k].cbCount = 1 => runs[k].cbId = runs[k].id
  /\ runs[k].ret # -1 => runs[k].ret = runs[k].id
  /\ (runs[k].ret # -1 /\ runs[k].path \in {"notfound", "refused"}) =>
       runs[k].cbCount = 1
  /\ runs[k].st \in {"wrap_dec", "done"} => runs[k].cbCount = 1

CallbacksOnce == \A k \in 1..Len(runs) : CallbackOnce(k)

Queued(k) == IF k <= Len(runs) THEN runs[k].st = "queued" ELSE FALSE

Fired(k) == IF k <= Len(runs) THEN runs[k].cbCount = 1 ELSE FALSE

\* C2: on each of the three paths of runNetwork the caller's callback is
\* invoked exactly once, with the run identifier that runNetwork returns, and
\* under fair scheduling the callback of every run handed to the Executor
\* eventually fires.
C2_CallbackExactlyOnce ==
  /\ []CallbacksOnce
  /\ \A k \in 1..MaxRuns : Queued(k) ~> Fired(k)

\* A forwarded run's callback has fired after runNetwork returned, and an
\* earlier call ended on the not-found or the refusal path.
C2_Witness ==
  \E j, k \in 1..Len(runs) :
    /\ runs[k].path = "forwarded" /\ runs[k].cbCount = 1 /\ runs[k].ret # -1
    /\ runs[j].cbCount = 1 /\ j # k

\* C3: removeNetwork finding its name registered with refcount > 0 returns
\* the network-busy error without issuing an evictNetwork or removeFunction
\* call and without changing the registry.
C3_BusyRemoveRefused ==
  [][\A t \in Thread :
       (/\ th[t].pc = "rm_find"
        /\ th'[t].pc # "rm_find"
        /\ Found(th[t].name)
        /\ networks_[th[t].name].refcount > 0)
       => (/\ th'[t].result = "Busy"
           /\ th'[t].pc \in {"ret", "clear_after_rm"}
           /\ th'[t].evicts = {} /\ th'[t].removed = {}
           /\ networks_' = networks_
           /\ provisioner_' = provisioner_
           /\ resident' = resident)]_vars

\* removeNetwork has returned busy and the network is still registered with
\* its outstanding run.
C3_Witness ==
  \E t \in Thread :
    /\ th[t].pc = "ret" /\ th[t].op = "removeNetwork"
    /\ th[t].result = "Busy"
    /\ Found(th[t].name) /\ networks_[th[t].name].refcount > 0

\* C4 as stated: no entry has refcount 0 while a runNetwork call that
\* incremented it has not yet had its caller callback invoked.
C4_ZeroOnlyAfterCallback ==
  \A k \in 1..Len(runs) :
    (runs[k].inc /\ runs[k].cbCount = 0) =>
      (Found(runs[k].name) /\ networks_[runs[k].name].refcount > 0)

\* C4 amended: a call that has incremented a refcount and not yet performed
\* its decrement keeps its network registered with refcount > 0, and its
\* callback is invoked only after that decrement.
C4_ZeroOnlyAfterDecrement ==
  \A k \in 1..Len(runs) :
    runs[k].holdsRef =>
      /\ Found(runs[k].name)
      /\ networks_[runs[k].name].refcount > 0
      /\ runs[k].cbCount = 0

\* The wrapper of a run has decremented the refcount to 0 and has not yet
\* invoked the caller's callback, while another call still holds a reference
\* on a registered network or has just given its own back.
C4_Witness ==
  \E k \in 1..Len(runs) :
    /\ runs[k].st = "wrap_cb" /\ runs[k].cbCount = 0
    /\ Found(runs[k].name) /\ networks_[runs[k].name].refcount = 0

\* C6: runNetwork on an unregistered name invokes the callback with the
\* not-found error before it returns, never hands the run to the Executor,
\* and changes no refcount and not the global in-flight counter.
C6_NotFound ==
  [][\A t \in Thread :
       /\ (th[t].pc = "run_find" /\ th'[t].pc # "run_find"
           /\ ~Found(th[t].name))
          => (/\ networks_' = networks_
              /\ activeRequestCount_' = activeRequestCount_
              /\ th'[t].pc = "run_check"
              /\ runs'[th[t].call].cbCount = 0)
       /\ (th[t].pc = "run_check" /\ th'[t].pc # "run_check"
           /\ th[t].network = Null)
          => (/\ networks_' = networks_
              /\ activeRequestCount_' = activeRequestCount_
              /\ th'[t].pc \in {"ret", "rnb_wait"}
              /\ runs'[th[t].call].cbCount = 1
              /\ runs'[th[t].call].cbErr = "NotFound"
              /\ runs'[th[t].call].cbId = th[t].currentRun
              /\ runs'[th[t].call].ret = th[t].currentRun
              /\ runs'[th[t].call].st = "none")]_vars

\* A runNetwork on an unregistered name has returned after its not-found
\* callback, while another network is registered and has a run in flight.
C6_Witness ==
  \E t \in Thread :
    /\ th[t].pc = "ret" /\ th[t].op = "runNetwork"
    /\ runs[th[t].call].path = "notfound"
    /\ ~Found(th[t].name)
    /\ InFlight # {}

\* C8 as stated: once the caller's callback of a forwarded run has been
\* invoked, neither the refcount nor the global in-flight counter still
\* counts that run.
C8_DecrementsBeforeCallback ==
  \A k \in 1..Len(runs) :
    (runs[k].path = "forwarded" /\ runs[k].cbCount > 0) =>
      (~runs[k].holdsRef /\ ~runs[k].counted)

\* C9: run identifiers are unique and strictly increasing in call order,
\* whatever path a call ends on and whenever it completes, and runNetwork
\* returns the identifier it allocated.
C9_RunIdsIncrease ==
  /\ \A j, k \in 1..Len(runs) : j < k => runs[j].id < runs[k].id
  /\ \A k \in 1..Len(runs) : runs[k].ret # -1 => runs[k].ret = runs[k].id
  /\ \A t \in Thread : th[t].call # 0 => th[t].currentRun = runs[th[t].call].id
  /\ \A k \in 1..Len(runs) : runs[k].id < totalRequestCount_

\* A later call has already returned, refused or not found, while an earlier
\* one is still queued in the Executor: completion order differs from call
\* order.
C9_Witness ==
  \E j, k \in 1..Len(runs) :
    /\ j < k
    /\ runs[j].st = "queued"
    /\ runs[k].ret # -1 /\ runs[k].path \in {"notfound", "refused"}

\* C5: an addNetwork whose module has a function name that is already
\* registered returns an error straight from the collision check (no
\* partitioner, provisioner or device is touched) and leaves the registry as
\* it was; no step of any addNetwork replaces or modifies an existing entry.
C5_CollidingAddRejected ==
  [][\A t \in Thread :
       /\ (th[t].pc = "add_check" /\ th'[t].pc # "add_check"
           /\ \E n \in th[t].fns : Found(n))
          => (/\ th'[t].result = "Dup"
              /\ th'[t].pc = "ret"
              /\ networks_' = networks_
              /\ provisioner_' = provisioner_
              /\ resident' = resident
              /\ devices_' = devices_)
       /\ (th[t].op = "addNetwork" /\ th'[t] # th[t])
          => \A n \in DOMAIN networks_ :
               n \in DOMAIN networks_' /\ networks_'[n] = networks_[n]]_vars

\* An addNetwork of a module with functions f and g has been rejected because
\* one of them is registered (by another module); the other is not registered.
C5_Witness ==
  \E t \in Thread :
    /\ th[t].pc = "ret" /\ th[t].op = "addNetwork" /\ th[t].result = "Dup"
    /\ \E n \in th[t].fns : Found(n) /\ networks_[n].module # th[t].module
    /\ \E n \in th[t].fns : ~Found(n)

\* C7 as stated: when clearHost returns, with success or with an error, every
\* run that was in flight in the Executor when it was called has completed
\* and the registry is empty.
C7_ClearHostEmptiesRegistry ==
  \A t \in Thread :
    (th[t].pc = "ret" /\ th[t].op = "clearHost") =>
      /\ \A k \in th[t].before : runs[k].st = "done"
      /\ DOMAIN networks_ = {}

\* The positions at which a thread's next step reads or writes networks_.
RegistryAccess ==
  {"run_find", "run_exec", "add_check", "add_partition", "add_provision",
   "rm_find", "rm_evict", "na_find", "dag_find", "clear_loop"}

\* C10 as stated: every read and write of the registry is made by a thread
\* (or completion wrapper) that holds the registry lock.
C10_RegistryAccessLocked ==
  /\ \A t \in Thread : th[t].pc \in RegistryAccess => networkLock_ = t
  /\ \A k \in 1..Len(runs) :
       runs[k].st = "wrap_find" => networkLock_ = Wrapper(k)

\* The positions at which a thread waits for a device or for the Provisioner:
\* done.get() on the evictNetwork acknowledgment (line 205) and
\* provisioner_->provision (line 159).
AwaitsDevice == {"rm_wait", "add_provision"}

\* C11 as stated: the registry lock is never held by a thread that is waiting
\* for a device's evictNetwork acknowledgment or for a provisioning step to
\* complete.
C11_LockNotHeldAcrossAwait ==
  \A t \in Thread : th[t].pc \in AwaitsDevice => networkLock_ # t

\* C12 as stated: runNetwork never blocks: a thread inside runNetwork never
\* needs a device's eviction acknowledgment or a provisioning step to make
\* progress, that is, it never waits at line 282 for the registry lock while
\* the lock's holder is itself waiting for a device or for the Provisioner.
C12_RunNetworkNeverBlocks ==
  \A t \in Thread :
    th[t].pc = "run_acquire" =>
      \A u \in Thread : networkLock_ = u => th[u].pc \notin AwaitsDevice

\* A step that erases the entry of n is made by removeNetwork(n) at line 211
\* with the refcount it observed under the lock still 0; a step that creates
\* the entry of n is the insertion of a successful addNetwork (lines 167-171).
EntryLifecycle(n) ==
  /\ (Found(n) /\ n \notin DOMAIN networks_') =>
       \E t \in Thread :
         /\ th[t].pc = "rm_evict" /\ th[t].network = n
         /\ networks_[n].refcount = 0
         /\ th'[t].pc = RmRet(t)
  /\ (~Found(n) /\ n \in DOMAIN networks_') =>
       \E t \in Thread :
         /\ th[t].pc = "add_provision" /\ n \in th[t].fns
         /\ th'[t].pc = "ret" /\ th'[t].result = "ok"

\* C13: an entry leaves the registry only through a removeNetwork step that
\* observed refcount 0 and is created only by a successful addNetwork (so
\* runNetwork never creates one); in every reachable state each run that has
\* incremented a refcount and not yet decremented it has its network present.
C13_EntryLifecycle ==
  /\ [](\A k \in 1..Len(runs) : runs[k].holdsRef => Found(runs[k].name))
  /\ [][\A n \in Names : EntryLifecycle(n)]_vars

\* Network f was removed (its partition evicted) after a run on it had taken
\* and given back a reference, and that call is still visible.
C13_Witness ==
  /\ ~Found("f")
  /\ \E t \in Thread :
       /\ th[t].op = "removeNetwork" /\ th[t].pc = "ret"
       /\ th[t].result = "ok" /\ th[t].removed # {}
  /\ \E k \in 1..Len(runs) :
       runs[k].name = "f" /\ runs[k].inc /\ ~runs[k].holdsRef

\* The positions of a thread inside addNetwork that holds the registry lock.
AddPcs == {"add_check", "add_partition", "add_reset", "add_provision"}

\* C14: addNetwork is all-or-nothing on the registry: while a call is under
\* way nothing of its module is registered; the only step of the call that
\* changes the registry is the one that returns success, and it inserts one
\* entry per function of the module at once (under the lock networkAdded
\* takes); a call that returns an error returns with the registry it found.
C14_AddAllOrNothing ==
  /\ [](\A t \in Thread :
          th[t].pc \in AddPcs =>
            \A n \in DOMAIN networks_ : networks_[n].module # th[t].module)
  /\ [][\A t \in Thread :
          th[t].pc \in AddPcs =>
            IF th'[t].pc = "ret" /\ th'[t].result = "ok"
              THEN /\ DOMAIN networks_' = DOMAIN networks_ \cup th[t].fns
                   /\ th[t].fns \cap DOMAIN networks_ = {}
                   /\ \A n \in th[t].fns :
                        networks_'[n].module = th[t].module
                   /\ \A n \in DOMAIN networks_ : networks_'[n] = networks_[n]
              ELSE networks_' = networks_]_vars

\* A call whose provisioning failed has returned leaving network f
\* unregistered, and a later call for the module {f, g} has returned success
\* with both networks registered for that module.
C14_Witness ==
  \E t, u \in Thread :
    /\ th[u].op = "addNetwork" /\ th[u].pc = "ret"
    /\ th[u].result = "ProvFail" /\ th[u].fns = {"f"}
    /\ th[t].op = "addNetwork" /\ th[t].pc = "ret"
    /\ th[t].result = "ok" /\ th[t].fns = {"f", "g"}
    /\ DOMAIN networks_ = {"f", "g"}
    /\ \A n \in {"f", "g"} : networks_[n].module = th[t].module

\* Call k has started (its identifier is allocated) and has not yet made its
\* admission check, while the run of call j is in the Executor, not completed.
StartsDuring(j, k) ==
  IF j <= Len(runs) /\ k <= Len(runs)
    THEN /\ runs[j].path = "forwarded" /\ runs[j].st = "queued"
         /\ \E t \in Thread :
              /\ th[t].call = k
              /\ th[t].pc \in {"run_acquire", "run_find", "run_check"}
              /\ th[t].network # Null \/ th[t].pc # "run_check"
    ELSE FALSE

\* Call k was handed to the Executor.
Forwarded(k) == IF k <= Len(runs) THEN runs[k].path = "forwarded" ELSE FALSE

\* Calls j and k were both refused.
BothRefused(j, k) ==
  IF j <= Len(runs) /\ k <= Len(runs)
    THEN runs[j].path = "refused" /\ runs[k].path = "refused"
    ELSE FALSE

OthersCounted(k) == {j \in 1..Len(runs) : j # k /\ runs[j].counted}

RunsComplete ==
  /\ \A k \in 1..Len(runs) : runs[k].cbCount >= 1
  /\ InFlight = {}

\* Thread t's removeNetwork has returned success.
RemoveReturned(t) ==
  th[t].pc = "ret" /\ th[t].op = "removeNetwork" /\ th[t].result = "ok"

\* No addNetwork or removeNetwork is inside its critical section.
RegistryQuiet ==
  \A t \in Thread : networkLock_ = t => th[t].pc = "run_find"

C17_ClearHostStopsEveryDevice ==
  \A t \in Thread :
    /\ (th[t].op = "clearHost" /\ th[t].pc # "idle") => executor_.shutdown
    /\ th[t].pc = "clear_stop" => DOMAIN networks_ = {}
    /\ (th[t].op = "clearHost" /\ th[t].pc = "ret") =>
         /\ \A d \in Device : devices_[d].stopped
         /\ th[t].result \in {"ok", "DevErr"}

\* C18: a profiling-mode addNetwork that finds the registry non-empty returns
\* an error and leaves the registry, the devices, the Provisioner and the
\* Executor as they were; a device's backend changes only in a step of a
\* profiling-mode addNetwork that holds the lock and found the registry
\* empty, and only such a call goes on to reset Provisioner and Executor.
C18_ProfilingNeedsEmptyRegistry ==
  /\ [](\A t \in Thread :
          th[t].pc = "add_reset" => (th[t].profile /\ DOMAIN networks_ = {}))
  /\ [][/\ \A t \in Thread :
            (/\ th[t].pc = "add_partition" /\ th[t].profile
             /\ DOMAIN networks_ # {} /\ th'[t] # th[t]) =>
               /\ th'[t].pc = "ret"
               /\ th'[t].result \in {"OptFail", "PartFail", "ProfileNotEmpty"}
               /\ UNCHANGED << networks_, devices_, provisioner_, executor_,
                               resident >>
        /\ \A d \in Device :
             devices_'[d].backend # devices_[d].backend =>
               \E t \in Thread :
                 /\ th[t].pc = "add_partition" /\ th[t].profile
                 /\ networkLock_ = t /\ DOMAIN networks_ = {}
                 /\ th'[t].pc \in {"ret", "add_reset"}
       ]_vars

\* A profiling-mode addNetwork has returned its precondition error: network
\* f stays registered and the devices keep their backend.
C18_Witness ==
  \E t \in Thread :
    /\ th[t].op = "addNetwork" /\ th[t].pc = "ret" /\ th[t].profile
    /\ th[t].result = "ProfileNotEmpty"
    /\ Found("f") /\ networks_["f"].module # th[t].module
    /\ \A d \in Device : devices_[d].backend = "native"

\* Thread t is inside runNetworkBlocking.
InBlocking(t) == th[t].op = "runNetworkBlocking" /\ th[t].pc # "ret"

\* C19: runNetworkBlocking returns only after the callback of its runNetwork
\* call has been invoked, and returns the error that callback received; on
\* the not-found and refusal paths the callback has been invoked by the time
\* the wait starts; and every call returns: a run handed to the Executor is
\* completed, its callback invoked, and the waiting thread woken.
C19_BlockingReturnsCallbackError ==
  /\ [](\A t \in Thread :
          /\ (th[t].op = "runNetworkBlocking" /\ th[t].pc = "ret") =>
               /\ runs[th[t].call].cbCount = 1
               /\ th[t].result = runs[th[t].call].cbErr
          /\ (th[t].pc = "rnb_wait"
                /\ runs[th[t].call].path \in {"notfound", "refused"}) =>
               runs[th[t].call].cbCount = 1)
  /\ \A t \in Thread : InBlocking(t) ~> (th[t].pc = "ret")

\* A blocking run of f was handed to the Executor, which reported an error,
\* and runNetworkBlocking has returned that error.
C19_Witness ==
  \E t \in Thread :
    /\ th[t].op = "runNetworkBlocking" /\ th[t].pc = "ret"
    /\ runs[th[t].call].path = "forwarded"
    /\ th[t].result = "ExecFail"

\* The calls other than k that hold a reference on network n.
OtherHolders(k, n) ==
  {j \in 1..Len(runs) : j # k /\ runs[j].holdsRef /\ runs[j].name = n}

\* Thread t's runNetwork call was refused and has returned.
RefusedReturned(t) ==
  /\ th[t].pc \in {"ret", "rnb_wait"}
  /\ th[t].call # 0
  /\ runs[th[t].call].path = "refused"

\* C20: when a refused runNetwork call has returned, nothing of it is left in
\* the counters: the network's refcount and the in-flight counter count the
\* other calls only (so, with no other activity, they are what they were
\* before the call); nothing was handed to the Executor; the RequestRefused
\* callback has been invoked with the identifier returned; and the steps of
\* the refusal path leave the registry's entries in place, changing nothing
\* but the one refcount they decrement.
C20_RefusedNoNetEffect ==
  /\ [](\A t \in Thread :
          RefusedReturned(t) =>
            LET k == th[t].call
                n == runs[k].name
            IN /\ activeRequestCount_ = Cardinality(OthersCounted(k))
               /\ Found(n) =>
                    networks_[n].refcount = Cardinality(OtherHolders(k, n))
               /\ runs[k].inc /\ ~runs[k].holdsRef /\ ~runs[k].counted
               /\ runs[k].st = "none" /\ runs[k].root = Null
               /\ runs[k].cbCount = 1 /\ runs[k].cbErr = "Refused"
               /\ runs[k].cbId = th[t].currentRun
               /\ runs[k].ret = th[t].currentRun)
  /\ [][\A t \in Thread :
          (th[t].pc \in {"run_refuse_ref", "run_refuse_cb"}
             /\ th'[t] # th[t]) =>
            /\ DOMAIN networks_' = DOMAIN networks_
            /\ \A n \in DOMAIN networks_ :
                 /\ networks_'[n].dag = networks_[n].dag
                 /\ networks_'[n].module = networks_[n].module
                 /\ networks_'[n].refcount =
                      IF th[t].pc = "run_refuse_ref" /\ n = th[t].network
                        THEN networks_[n].refcount - 1
                        ELSE networks_[n].refcount
            /\ UNCHANGED << activeRequestCount_, executor_ >>
       ]_vars

\* A call on f has been refused and has returned while another call on f is
\* in flight: the refcount and the in-flight counter count that other call
\* only.
C20_Witness ==
  \E t \in Thread :
    /\ RefusedReturned(t) /\ th[t].pc = "ret"
    /\ runs[th[t].call].name = "f"
    /\ Found("f") /\ networks_["f"].refcount = 1
    /\ activeRequestCount_ = 1
    /\ Cardinality(OtherHolders(th[t].call, "f")) = 1

\* Every (DAG node, device ID) pair of network n.
AllPairs(n) ==
  UNION {{<<NodesOf(n)[i].name, NodesOf(n)[i].deviceIDs[j]>> :
            j \in 1..Len(NodesOf(n)[i].deviceIDs)} : i \in 1..Len(NodesOf(n))}

\* The first error in a sequence of acknowledgments, "ok" when there is none.
FirstError(acks) ==
  IF \A i \in 1..Len(acks) : acks[i] = "ok" THEN "ok"
  ELSE acks[CHOOSE i \in 1..Len(acks) :
              acks[i] # "ok" /\ \A j \in 1..(i - 1) : acks[j] = "ok"]

\* C21: removeNetwork on a registered name with refcount 0 issues
\* evictNetwork for the pairs one at a time, each after the acknowledgment of
\* the one before, whatever the acknowledgments were; when it returns it has
\* issued one for every (node, device) pair of the network, has called
\* removeFunction for every node, erases the entry and returns the first
\* error acknowledged, or success when there was none.
C21_RemoveEvictsAll ==
  /\ [](\A t \in Thread :
          th[t].pc \in {"rm_evict", "rm_wait"} =>
            /\ Found(th[t].network)
            /\ Len(th[t].acks) = th[t].i - 1
            /\ th[t].evicts \subseteq AllPairs(th[t].network)
            /\ Cardinality(th[t].evicts) =
                 IF th[t].pc = "rm_wait" THEN th[t].i ELSE th[t].i - 1)
  /\ [][\A t \in Thread :
          (th[t].pc = "rm_evict" /\ th'[t].pc = "ret") =>
            /\ th[t].evicts = AllPairs(th[t].name)
            /\ Len(th[t].acks) = Cardinality(AllPairs(th[t].name))
            /\ th[t].removed = NodeNames(th[t].name)
            /\ DOMAIN networks_' = DOMAIN networks_ \ {th[t].name}
            /\ Found(th[t].name)
            /\ th'[t].result = FirstError(th[t].acks)
       ]_vars

\* removeNetwork("f") has returned the first of two different eviction
\* errors, having erased the entry and removed both nodes.
C21_Witness ==
  \E t \in Thread :
    /\ th[t].op = "removeNetwork" /\ th[t].pc = "ret" /\ th[t].name = "f"
    /\ th[t].acks = << "DevErr2", "DevErr" >>
    /\ th[t].result = "DevErr2"
    /\ th[t].removed = {"f_A", "f_B"}
    /\ ~Found("f")

\* C22: removeNetwork on a name that is not registered returns success
\* straight from the lookup, and no step of the call changes the registry,
\* a refcount, a counter, what is loaded on the devices or what the
\* Provisioner tracks; it has issued no evictNetwork and no removeFunction.
C22_RemoveAbsentNoOp ==
  [][\A t \in Thread :
       (/\ th[t].op = "removeNetwork"
        /\ th[t].pc \in {"rm_acquire", "rm_find"}
        /\ ~Found(th[t].name)
        /\ th'[t] # th[t]) =>
          /\ UNCHANGED << networks_, totalRequestCount_, activeRequestCount_,
                          resident, provisioner_, devices_, executor_, runs >>
          /\ th[t].pc = "rm_find" =>
               /\ th'[t].pc = "ret" /\ th'[t].result = "ok"
               /\ th'[t].evicts = {} /\ th'[t].removed = {}
               /\ th'[t].acks = << >>
               /\ networkLock_' = NoThread
    ]_vars

\* removeNetwork("f") has returned success for the unregistered f, after a
\* runNetwork call was made.
C22_Witness ==
  \E t \in Thread :
    /\ th[t].op = "removeNetwork" /\ th[t].pc = "ret"
    /\ th[t].result = "ok" /\ th[t].network = Null
    /\ th[t].evicts = {} /\ th[t].removed = {}
    /\ ~Found(th[t].name)
    /\ totalRequestCount_ > 0

\* The calls that hold a reference on network n: they have incremented its
\* refcount and not yet decremented it.
Holders(n) ==
  {k \in 1..Len(runs) : runs[k].holdsRef /\ runs[k].name = n}

\* Call k on network n is over: its callback has been invoked.
CallOver(k) == runs[k].cbCount >= 1

\* C23: the refcount of every entry is non-negative and is the number of
\* calls that hold a reference on it; a refcount goes down by one, in the
\* step in which exactly one holder gives its reference back (on the refusal
\* path or in the completion wrapper), and a call that gave its reference
\* back never holds one again; once every call on a network is over its
\* refcount is 0.
C23_RefcountExact ==
  /\ [](\A n \in DOMAIN networks_ :
          /\ networks_[n].refcount >= 0
          /\ networks_[n].refcount = Cardinality(Holders(n))
          /\ (\A k \in 1..Len(runs) : runs[k].name = n => CallOver(k)) =>
               networks_[n].refcount = 0)
  /\ [][/\ \A n \in DOMAIN networks_ \cap DOMAIN networks_' :
            networks_'[n].refcount < networks_[n].refcount =>
              /\ networks_'[n].refcount = networks_[n].refcount - 1
              /\ Cardinality({k \in Holders(n) : ~runs'[k].holdsRef}) = 1
        /\ \A k \in 1..Len(runs) :
             (runs[k].inc /\ ~runs[k].holdsRef) => ~runs'[k].holdsRef
       ]_vars

\* Two calls hold a reference on f at once: its refcount is 2.
C23_Witness ==
  /\ Found("f")
  /\ networks_["f"].refcount = 2
  /\ Cardinality(Holders("f")) = 2

\* The Executor reported an error for run k.
Failed(k) == runs[k].path = "forwarded" /\ runs[k].err # "ok"

\* C24: when the Executor reports an error for an admitted run, the wrapper
\* gives the network's reference back (leaving the entry's DAG and module as
\* they are), invokes the callback once with the run's identifier and that
\* error, and decrements the in-flight counter by one; when it has returned
\* the call holds no reference and is not counted.
C24_FailedRunReleases ==
  /\ [](\A k \in 1..Len(runs) :
          (Failed(k) /\ runs[k].st = "done") =>
            /\ runs[k].cbCount = 1
            /\ runs[k].cbErr = runs[k].err /\ runs[k].cbId = runs[k].id
            /\ ~runs[k].holdsRef /\ ~runs[k].counted)
  /\ [][\A k \in 1..Len(runs) :
          (Failed(k) /\ runs'[k] # runs[k]) =>
            /\ runs[k].st = "wrap_find" =>
                 /\ Found(runs[k].name)
                 /\ networks_' = [networks_ EXCEPT ![runs[k].name].refcount =
                                                      @ - 1]
                 /\ UNCHANGED activeRequestCount_
            /\ runs[k].st = "wrap_cb" =>
                 /\ runs'[k].cbCount = 1
                 /\ runs'[k].cbErr = runs[k].err /\ runs'[k].cbId = runs[k].id
                 /\ UNCHANGED << networks_, activeRequestCount_ >>
            /\ runs[k].st = "wrap_dec" =>
                 /\ activeRequestCount_' = activeRequestCount_ - 1
                 /\ UNCHANGED networks_
            /\ runs[k].st \in {"wrap_acquire", "done"} =>
                 UNCHANGED << networks_, activeRequestCount_ >>
       ]_vars

\* A run of f failed in the Executor and its caller got that error; f is
\* still registered as it was and a later call on f is in the Executor.
C24_Witness ==
  \E j, k \in 1..Len(runs) :
    /\ j < k
    /\ Failed(j) /\ runs[j].st = "done" /\ runs[j].cbErr = "ExecFail"
    /\ runs[j].name = "f" /\ runs[k].name = "f"
    /\ runs[k].st = "queued"
    /\ Found("f") /\ networks_["f"].dag = "f" /\ networks_["f"].refcount = 1

\* C25 as stated: the assertion of clearHost holds in every execution: when
\* executor.shutdown() has returned and clearHost evaluates
\* DCHECK_EQ(activeRequestCount_, 0), the in-flight counter is 0.
C25_ShutdownLeavesCounterZero ==
  /\ assertOk
  /\ \A t \in Thread : th[t].pc = "clear_dcheck" => activeRequestCount_ = 0

\* The calls that were admitted (or are being checked) and whose caller
\* callback has not been invoked yet.
AwaitingCallback == {k \in 1..Len(runs) : runs[k].counted /\ runs[k].cbCount = 0}

\* C26 as stated: no spurious refusal: when the admission check of a call on
\* a registered network reads a value for which the call is refused, at
\* least maxActiveRequests other requests have not had their callback
\* invoked yet.
C26_NoSpuriousRefusal ==
  [][\A t \in Thread :
       (/\ th[t].pc = "run_check" /\ th'[t].pc = "run_admit"
        /\ Refuse(th'[t].activeRequestCount, config_.maxActiveRequests)) =>
          Cardinality(AwaitingCallback) >= config_.maxActiveRequests
    ]_vars

\* The Executor reports run k: with success, or with an error when it had
\* been shut down before the run was handed to it.
Report(k) ==
  /\ k \in 1..Len(runs)
  /\ ExecutorComplete(k, IF runs[k].late THEN "ExecFail" ELSE "ok")

\* One client adds modules (profiling or not), queries the registry and
\* clears the host while another runs and removes network f, in any
\* interleaving with the completion wrappers; every device acknowledges and
\* the Executor reports every run.
NextAll ==
  \/ \E p \in BOOLEAN : AddNetworkCall(1, {"f"}, p)
  \/ \E t \in Thread : AddAcquire(t)
  \/ \E t \in Thread : AddCheck(t)
  \/ \E t \in Thread : AddPartition(t, "ok", Cardinality(Device))
  \/ \E t \in Thread : AddReset(t)
  \/ \E t \in Thread : AddProvision(t, "ok")
  \/ RemoveNetworkCall(2, "f")
  \/ \E t \in Thread : RmAcquire(t)
  \/ \E t \in Thread : RmFind(t)
  \/ \E t \in Thread : RmEvict(t)
  \/ \E t \in Thread : RmAck(t, "ok")
  \/ NetworkAddedCall(1, "f")
  \/ \E t \in Thread : NetworkAddedFind(t)
  \/ RunNetworkCall(2, "f", FALSE)
  \/ \E t \in Thread : RunSteps(t)
  \/ \E k \in 1..MaxRuns : Report(k)
  \/ \E k \in 1..MaxRuns : WrapSteps(k)
  \/ ClearHostCall(1)
  \/ \E t \in Thread : ClearDrain(t)
  \/ \E t \in Thread : ClearDcheck(t)
  \/ \E t \in Thread : ClearLoop(t)
  \/ \E t \in Thread : ClearAfterRm(t)
  \/ \E t \in Thread : ClearAcquire(t)
  \/ \E t \in Thread : ClearStop(t, [d \in Device |-> "ok"])
  \/ \E t \in Thread : Return(t)

\* Fair scheduling: the Executor reports every run handed to it; every device
\* acknowledges; a thread or completion wrapper that keeps asking for the
\* registry mutex is eventually granted it; a thread inside an operation
\* keeps running.  Clients are free never to call again.
FairAll ==
  /\ Init /\ [][NextAll]_vars
  /\ \A k \in 1..MaxRuns :
       /\ WF_vars(Report(k))
       /\ SF_vars(WrapAcquire(k))
       /\ WF_vars(WrapFind(k) \/ WrapCallback(k) \/ WrapDec(k))
  /\ \A t \in Thread :
       /\ SF_vars(RunAcquire(t) \/ AddAcquire(t) \/ RmAcquire(t)
                  \/ ClearAcquire(t))
       /\ WF_vars(RunFind(t) \/ RunCheck(t) \/ RunAdmit(t)
                  \/ RunRefuseRef(t) \/ RunRefuseCb(t) \/ RunExec(t))
       /\ WF_vars(AddCheck(t) \/ AddPartition(t, "ok", Cardinality(Device))
                  \/ AddReset(t) \/ AddProvision(t, "ok"))
       /\ WF_vars(RmFind(t) \/ RmEvict(t) \/ RmAck(t, "ok"))
       /\ WF_vars(NetworkAddedFind(t))
       /\ WF_vars(ClearDrain(t) \/ ClearDcheck(t) \/ ClearLoop(t)
                  \/ ClearAfterRm(t)
                  \/ ClearStop(t, [d \in Device |-> "ok"]))

\* The program points at which a thread asks for the registry mutex.
LockWaitPcs == {"run_acquire", "add_acquire", "rm_acquire", "clear_acquire"}

WrapperWaits(k) ==
  IF k \in 1..Len(runs) THEN runs[k].st = "wrap_acquire" ELSE FALSE

\* C27: the orchestrator is deadlock-free: no thread asks for the registry
\* mutex while holding it (in particular clearHost does not hold it while it
\* calls removeNetwork), a held mutex is always released again, and every
\* thread and every completion wrapper that waits for the mutex is
\* eventually served.
C27_DeadlockFree ==
  /\ [](\A t \in Thread : th[t].pc \in LockWaitPcs => networkLock_ # t)
  /\ (networkLock_ # NoThread) ~> (networkLock_ = NoThread)
  /\ \A t \in Thread :
       (th[t].pc \in LockWaitPcs) ~> (th[t].pc \notin LockWaitPcs)
  /\ \A k \in 1..MaxRuns : WrapperWaits(k) ~> ~WrapperWaits(k)


\* clearHost, inside its loop, waits for the registry mutex in removeNetwork
\* together with a completion wrapper while another operation holds it.
C27_Witness ==
  \E t \in Thread :
    /\ th[t].caller = "clearHost"
    /\ th[t].pc = "rm_acquire"
    /\ networkLock_ \notin {NoThread, t}
    /\ \E k \in 1..MaxRuns : WrapperWaits(k)
====
